---------------------------- MODULE Spec2Model ----------------------------
(***************************************************************************)
(* Bingo board application: the localStorage-backed board store            *)
(* (frontend/src/storage.js) and the React component that drives it        *)
(* (App: checkBingo, handleSubmit, handleLogout, handleToggle,             *)
(* handleReset).                                                           *)
(*                                                                         *)
(* Representation.                                                         *)
(*  - A JavaScript string that is hashed is a sequence of UTF-16 code      *)
(*    units (what charCodeAt returns); a username is such a sequence.      *)
(*  - A 32-bit integer is a pair <<hi, lo>> of 16-bit halves, so that the  *)
(*    arithmetic of Math.imul, ^, |, >>> is carried out modulo 2^32.       *)
(*  - A cell text is a string; a board is a record                         *)
(*    [size, cells, updatedAt], cells a sequence indexed 1..25 (the        *)
(*    JavaScript index i is position i + 1).                               *)
(***************************************************************************)
EXTENDS Integers, Sequences, FiniteSets, TLC

VARIABLES
    catalog,     \* BINGO_WORDS: the phrase list the build was made with
    clock,       \* the last reading of the system clock (Date)
    lsUser,      \* localStorage["auth_user"]: <<>> (no item) or <<username>>
    lsBoards,    \* localStorage["bingo_boards"]: <<>> (no item) or <<map>>
    user,        \* App state `user`
    board,       \* App state `board`
    mounted,     \* whether the App component is mounted (it has not crashed)
    ret,         \* the last operation: its name, arguments and outcome
    memo,        \* seed string -> pool drawn for it from catalog (see pool)
    call         \* the call harness of the generator and of checkBingo

vars == <<catalog, clock, lsUser, lsBoards, user, board, mounted, ret, memo,
          call>>

---------------------------------------------------------------------------
(* 32-bit arithmetic on <<hi, lo>> pairs *)

TwoTo16 == 65536

RECURSIVE BitXor(_, _, _)
BitXor(a, b, n) ==
    IF n = 0 THEN 0
    ELSE (((a % 2) + (b % 2)) % 2) + 2 * BitXor(a \div 2, b \div 2, n - 1)

RECURSIVE BitOr(_, _, _)
BitOr(a, b, n) ==
    IF n = 0 THEN 0
    ELSE (IF a % 2 = 1 \/ b % 2 = 1 THEN 1 ELSE 0)
         + 2 * BitOr(a \div 2, b \div 2, n - 1)

Xor32(x, y) == <<BitXor(x[1], y[1], 16), BitXor(x[2], y[2], 16)>>

Or32(x, y) == <<BitOr(x[1], y[1], 16), BitOr(x[2], y[2], 16)>>

Add32(x, y) ==
    LET lo == x[2] + y[2]
        hi == x[1] + y[1] + (lo \div TwoTo16)
    IN  <<hi % TwoTo16, lo % TwoTo16>>

\* (a * b) mod 2^16 for 16-bit a, b, without leaving 31 bits
MulMod16(a, b) ==
    ((a % 256) * b + ((((a \div 256) * b) % 256) * 256)) % TwoTo16

\* floor((a * b) / 2^16) for 16-bit a, b
MulHigh16(a, b) ==
    LET p0 == (a % 256) * b
        p1 == (a \div 256) * b
    IN  (p1 \div 256) + ((((p1 % 256) * 256) + p0) \div TwoTo16)

\* Math.imul: the low 32 bits of the product
Imul(x, y) ==
    LET lo == MulMod16(x[2], y[2])
        hi == (MulHigh16(x[2], y[2]) + MulMod16(x[1], y[2])
                 + MulMod16(x[2], y[1])) % TwoTo16
    IN  <<hi, lo>>

RECURSIVE Pow2(_)
Pow2(k) == IF k = 0 THEN 1 ELSE 2 * Pow2(k - 1)

\* x >>> k for 0 < k < 16
ShiftRight(x, k) ==
    << x[1] \div Pow2(k),
       ((x[1] % Pow2(k)) * Pow2(16 - k)) + (x[2] \div Pow2(k)) >>

\* Math.floor((v / 4294967296) * n) for a 32-bit v and 0 < n < 2^15: the
\* quotient v / 2^32 and the product are exact in double precision
ScaleFloor(v, n) == (v[1] * n + ((v[2] * n) \div TwoTo16)) \div TwoTo16

---------------------------------------------------------------------------
(* hashStringToSeed and mulberry32 *)

FnvOffset == <<33052, 40389>>      \* 2166136261 = 0x811C9DC5
FnvPrime  == <<256, 403>>          \* 16777619   = 0x01000193
Mulberry  == <<27947, 31221>>      \* 0x6D2B79F5

\* The loop of hashStringToSeed on its variables hash and index.
RECURSIVE hashLoop(_, _)
hashLoop(state, value) ==
    IF state.index < Len(value)
    THEN hashLoop([hash  |-> Imul(Xor32(state.hash,
                                        <<0, value[state.index + 1]>>),
                                  FnvPrime),
                   index |-> state.index + 1], value)
    ELSE state.hash

hashStringToSeed(value) == hashLoop([hash |-> FnvOffset, index |-> 0], value)

\* let result = Math.imul(state ^ (state >>> 15), state | 1)
mulberryFirst(s) == Imul(Xor32(s, ShiftRight(s, 15)), Or32(s, <<0, 1>>))

\* result ^= result + Math.imul(result ^ (result >>> 7), result | 61)
mulberrySecond(r) ==
    Xor32(r, Add32(r, Imul(Xor32(r, ShiftRight(r, 7)), Or32(r, <<0, 61>>))))

\* (result ^ (result >>> 14)) >>> 0
mulberryLast(r) == Xor32(r, ShiftRight(r, 14))

\* The closure's state after the addition, and what it then returns
mulberryResult(s) ==
    [state |-> s, value |-> mulberryLast(mulberrySecond(mulberryFirst(s)))]

\* One call of the closure mulberry32 returns: the new state and the 32-bit
\* numerator of the returned fraction.  `state += 0x6d2b79f5` is a double
\* addition, but every later use of state converts it modulo 2^32.
mulberryStep(state) == mulberryResult(Add32(state, Mulberry))


\* The random source handed to shuffleArray: the closure mulberry32(seed)
\* returns, or a scripted source that returns the numerators of `script`
\* in turn, cyclically (any other generator of fractions k / 2^32).
mulberry32(seed) == [kind |-> "mulberry32", state |-> seed, script |-> <<>>]

scripted(script) == [kind |-> "script", state |-> <<0, 0>>, script |-> script]

\* The seeded source after a call that went through `step`
afterStep(rng, step) ==
    [rng |-> [rng EXCEPT !.state = step.state], value |-> step.value]

\* rng(): the source after the call, and the numerator of the fraction
rngCall(rng) ==
    IF rng.kind = "mulberry32"
    THEN afterStep(rng, mulberryStep(rng.state))
    ELSE [rng   |-> [rng EXCEPT !.script = Tail(rng.script) \o <<Head(rng.script)>>],
          value |-> Head(rng.script)]

---------------------------------------------------------------------------
(* The catalog, shuffleArray and createBoard *)

BINGO_WORDS == <<
    "Faris says 'Faris'",
    "JL and Fawzy beef",
    "Mark Burps",
    "John I. says he's horny",
    "Rat says 'I'm not drunk'",
    "Tony T throws up for no reason",
    "Alex flakes on the whole trip",
    "Someone loses their phone",
    "Stripper shows up unexpectedly",
    "Someone passes out early",
    "Someone gets lost",
    "Someone calls their girlfriend",
    "Drunk dialing incident",
    "Someone loses wallet",
    "Someone pukes in Uber",
    "Strip club debate",
    "Someone gets kicked out",
    "Mark gets too drunk",
    "Someone breaks something",
    "Late night food run",
    "Someone falls asleep standing",
    "Group chat spam",
    "Someone forgets where hotel is",
    "Someone tries to fight a bouncer",
    "Mark gets emotional",
    "Youssef Pees all over the bathroom",
    "Someone hits on the waitress",
    "Someone falls off barstool",
    "Someone loses their keys",
    "Someone tries to start a fight",
    "Someone gets kicked out of club",
    "Someone passes out in bathroom",
    "Someone tries to drive drunk",
    "Someone loses their shirt",
    "Someone gets a tattoo",
    "Someone tries to fight",
    "Someone gets thrown in pool",
    "Someone orders way too much food",
    "Someone falls down stairs",
    "Someone gets locked out of room"
>>

RequiredWords == 24
BoardCells == 25
FreeIndex == 12

\* swap as it would be if the second assignment read the overwritten element
swapOverwrites(array, index, swapIndex) ==
    [array EXCEPT ![index + 1] = array[swapIndex + 1]]

\* [array[index], array[swapIndex]] = [array[swapIndex], array[index]]
swap(array, index, swapIndex) ==
    [array EXCEPT ![index + 1] = array[swapIndex + 1],
                  ![swapIndex + 1] = array[index + 1]]

\* Lines 213-214 for the value `drawn` that rng() returned
swapDrawn(state, drawn) ==
    [array |-> swap(state.array, state.index,
                    ScaleFloor(drawn.value, state.index + 1)),
     rng   |-> drawn.rng,
     index |-> state.index - 1]

\* One iteration of the loop of shuffleArray, on its variables array, index
\* and the random source.
shuffleStep(state) == swapDrawn(state, rngCall(state.rng))

RECURSIVE shuffleLoop(_)
shuffleLoop(state) ==
    IF state.index > 0 THEN shuffleLoop(shuffleStep(state)) ELSE state.array

shuffleArray(items, rng) ==
    shuffleLoop([array |-> items, rng |-> rng, index |-> Len(items) - 1])

---------------------------------------------------------------------------
(* Values *)

\* An optional value (null / undefined / a missing localStorage item) is the
\* empty sequence; a present value v is <<v>>.
None == <<>>
Some(v) == <<v>>

\* The empty string and null: both are falsy, which is all the code tests.
NoUser == <<>>

\* {} : an object without properties
EmptyObject == [x \in {} |-> x]

Ok(v) == [ok |-> TRUE, value |-> v]
Thrown(e) == [ok |-> FALSE, error |-> e]

UsernameRequired == [message |-> "Username is required to build a board."]
NotEnoughWords == [message |-> "Not enough words to build a bingo board."]
NotEnoughWordsCounted(have) ==
    [message |-> "Not enough words to build a bingo board. Need 24, have ${BINGO_WORDS.length}",
     need |-> RequiredWords, have |-> have]

\* new Date().toISOString() at clock reading t: the text of the instant t
toISOString(t) == [iso |-> t]

\* `${n}` for a non-negative integer n: its decimal digits as code units
RECURSIVE decimal(_)
decimal(n) ==
    IF n < 10 THEN <<48 + n>> ELSE decimal(n \div 10) \o <<48 + (n % 10)>>

BingoPrefix == <<98, 105, 110, 103, 111, 58>>     \* "bingo:"
Colon == <<58>>                                     \* ":"

Min(a, b) == IF a < b THEN a ELSE b

---------------------------------------------------------------------------
(* createBoard *)

\* shuffleArray(BINGO_WORDS, rng).slice(0, 24)
drawPool(words, rng) ==
    SubSeq(shuffleArray(words, rng), 1, Min(RequiredWords, Len(words)))

\* ... with rng = mulberry32(hashStringToSeed(seedText))
shuffledPool(words, seedText) ==
    drawPool(words, mulberry32(hashStringToSeed(seedText)))

\* The same value, read from memo where memo holds it: memo is filled once,
\* in Init, with shuffledPool(catalog, s) for the seed strings s the inputs
\* of the model can produce, because evaluating the generator is costly.
pool(words, seedText) ==
    IF words = catalog /\ seedText \in DOMAIN memo
    THEN memo[seedText]
    ELSE shuffledPool(words, seedText)

FreeCell == [text |-> "FREE", marked |-> TRUE]

\* The loop over index = 0 .. 24 that pushes the cells: wordIndex is the
\* number of non-FREE indexes before index.
buildCells(words24) ==
    [position \in 1..BoardCells |->
        LET index == position - 1
            wordIndex == IF index < FreeIndex THEN index ELSE index - 1
        IN  IF index = FreeIndex THEN FreeCell
            ELSE IF wordIndex < Len(words24)
            THEN [text |-> words24[wordIndex + 1], marked |-> FALSE]
            ELSE [marked |-> FALSE]]        \* text: undefined

\* The board createBoard returns for the 24 words drawn
boardOf(words24, now) ==
    [size |-> 5, cells |-> buildCells(words24), updatedAt |-> toISOString(now)]

\* createBoard as it would be with the clock in its seed
createBoardSeededByTime(words, username, now) ==
    IF username = NoUser THEN Thrown(UsernameRequired)
    ELSE IF Len(words) < RequiredWords THEN Thrown(NotEnoughWords)
    ELSE Ok(boardOf(shuffledPool(words, BingoPrefix \o username \o Colon
                                        \o decimal(now)), now))

createBoard(words, username, now) ==
    IF username = NoUser THEN Thrown(UsernameRequired)
    ELSE IF Len(words) < RequiredWords THEN Thrown(NotEnoughWords)
    ELSE Ok(boardOf(pool(words, BingoPrefix \o username), now))

\* createBoard with the random source rng in the place of mulberry32(seed)
createBoardFrom(words, username, rng, now) ==
    IF ~createBoard(words, username, now).ok
    THEN createBoard(words, username, now)
    ELSE Ok(boardOf(drawPool(words, rng), now))

---------------------------------------------------------------------------
(* The board store: localStorage["bingo_boards"] *)

Constructor == <<99, 111, 110, 115, 116, 114, 117, 99, 116, 111, 114>>

\* Property names every object inherits from Object.prototype (of them, the
\* one that is also a username of the model); the value found there is a
\* built-in function.
InheritedKeys == {Constructor}
Builtin(key) == [builtin |-> key]
IsFunction(v) == "builtin" \in DOMAIN v

\* readJson(BOARDS_KEY, {}): the item is what writeJson wrote, so JSON.parse
\* succeeds and gives the map back
getBoards(item) == IF item = None THEN EmptyObject ELSE item[1]

\* JSON.parse(JSON.stringify(boards)): a property whose value is a function
\* is left out, every other value of the model comes back as it was
jsonRoundTrip(boards) ==
    [k \in {key \in DOMAIN boards : ~IsFunction(boards[key])} |-> boards[k]]

\* writeJson(BOARDS_KEY, boards); the item holds what readJson will parse
saveBoards(boards) == Some(jsonRoundTrip(boards))

\* boards[key]: an own property, else one inherited, else undefined
getProperty(boards, key) ==
    IF key \in DOMAIN boards THEN Some(boards[key])
    ELSE IF key \in InheritedKeys THEN Some(Builtin(key))
    ELSE None

\* boards[key] = value
setProperty(boards, key, value) ==
    [k \in DOMAIN boards \cup {key} |-> IF k = key THEN value ELSE boards[k]]

\* { ...object, name: value }
spread(object, name, value) ==
    [f \in DOMAIN object \cup {name} |-> IF f = name THEN value ELSE object[f]]

\* ensureBoard as it would be without the test for a stored board
ensureBoardAlwaysCreates(item, words, username, now) ==
    LET boards == getBoards(item)
        made   == createBoard(words, username, now)
    IN  IF made.ok
        THEN [item   |-> saveBoards(setProperty(boards, username, made.value)),
              result |-> made]
        ELSE [item |-> item, result |-> made]

ensureBoard(item, words, username, now) ==
    LET boards == getBoards(item)
        found  == getProperty(boards, username)
        made   == createBoard(words, username, now)
    IN  IF found # None THEN [item |-> item, result |-> Ok(found[1])]
        ELSE IF made.ok
        THEN [item   |-> saveBoards(setProperty(boards, username, made.value)),
              result |-> made]
        ELSE [item |-> item, result |-> made]

getBoard(item, words, username, now) == ensureBoard(item, words, username, now)

\* saveBoard as it would be if it started from {} instead of getBoards()
saveBoardFromEmpty(item, username, value, now) ==
    saveBoards(setProperty(EmptyObject, username,
                           spread(value, "updatedAt", toISOString(now))))

saveBoard(item, username, value, now) ==
    saveBoards(setProperty(getBoards(item), username,
                           spread(value, "updatedAt", toISOString(now))))

\* existing?.cells?.length === 25
hasCells25(found) ==
    /\ found # None
    /\ "cells" \in DOMAIN found[1]
    /\ Len(found[1].cells) = BoardCells

\* resetCells as it would be if it kept the marks already set
resetCellsKeepsMarks(cells) ==
    [position \in 1..Len(cells) |->
        spread(cells[position], "marked",
               cells[position].marked \/ position - 1 = FreeIndex)]

resetCells(cells) ==
    [position \in 1..Len(cells) |->
        spread(cells[position], "marked", position - 1 = FreeIndex)]

\* resetBoard as it would be if it kept the stored updatedAt
resetBoardKeepsStamp(item, words, username, now) ==
    LET boards   == getBoards(item)
        existing == getProperty(boards, username)
        next     == spread(existing[1], "cells", resetCells(existing[1].cells))
        made     == createBoard(words, username, now)
    IN  IF hasCells25(existing)
        THEN [item   |-> saveBoards(setProperty(boards, username, next)),
              result |-> Ok(next)]
        ELSE IF made.ok
        THEN [item   |-> saveBoards(setProperty(boards, username, made.value)),
              result |-> made]
        ELSE [item |-> item, result |-> made]

resetBoard(item, words, username, now) ==
    LET boards   == getBoards(item)
        existing == getProperty(boards, username)
        next     == spread(spread(existing[1], "cells",
                                  resetCells(existing[1].cells)),
                           "updatedAt", toISOString(now))
        made     == createBoard(words, username, now)
    IN  IF hasCells25(existing)
        THEN [item   |-> saveBoards(setProperty(boards, username, next)),
              result |-> Ok(next)]
        ELSE IF made.ok
        THEN [item   |-> saveBoards(setProperty(boards, username, made.value)),
              result |-> made]
        ELSE [item |-> item, result |-> made]

\* regenerateBoard as it would be if it returned the stored board when there
\* is one, as ensureBoard does
regenerateBoardKeepsStored(item, words, username, seedNow, stampNow) ==
    LET seedText == BingoPrefix \o username \o Colon \o decimal(seedNow)
        made == boardOf(pool(words, seedText), stampNow)
        found == getProperty(getBoards(item), username)
    IN  IF username = NoUser THEN [item |-> item, result |-> Thrown(UsernameRequired)]
        ELSE IF Len(words) < RequiredWords
        THEN [item |-> item, result |-> Thrown(NotEnoughWordsCounted(Len(words)))]
        ELSE IF found # None THEN [item |-> item, result |-> Ok(found[1])]
        ELSE [item   |-> saveBoards(setProperty(getBoards(item), username, made)),
              result |-> Ok(made)]

\* seedNow is the reading Date.now() of line 328, stampNow that of new Date()
\* of line 345
regenerateBoard(item, words, username, seedNow, stampNow) ==
    LET seedText == BingoPrefix \o username \o Colon \o decimal(seedNow)
        made == boardOf(pool(words, seedText), stampNow)
    IN  IF username = NoUser THEN [item |-> item, result |-> Thrown(UsernameRequired)]
        ELSE IF Len(words) < RequiredWords
        THEN [item |-> item, result |-> Thrown(NotEnoughWordsCounted(Len(words)))]
        ELSE [item   |-> saveBoards(setProperty(getBoards(item), username, made)),
              result |-> Ok(made)]

clearAllBoards(item) == None

---------------------------------------------------------------------------
(* App: checkBingo *)

\* cells[row * size + col].marked, as a condition
isMarked(cells, row, col) ==
    LET cell == cells[(row * 5 + col) + 1]
    IN  "marked" \in DOMAIN cell /\ cell.marked = TRUE

\* checkBingo as it would be without the anti-diagonal
checkBingoNoDiagUp(cells) ==
    IF Len(cells) # BoardCells THEN FALSE
    ELSE IF \E row \in 0..4 : \A col \in 0..4 : isMarked(cells, row, col)
    THEN TRUE
    ELSE IF \E col \in 0..4 : \A row \in 0..4 : isMarked(cells, row, col)
    THEN TRUE
    ELSE \A index \in 0..4 : isMarked(cells, index, index)

checkBingo(cells) ==
    IF Len(cells) # BoardCells THEN FALSE
    ELSE IF \E row \in 0..4 : \A col \in 0..4 : isMarked(cells, row, col)
    THEN TRUE
    ELSE IF \E col \in 0..4 : \A row \in 0..4 : isMarked(cells, row, col)
    THEN TRUE
    ELSE LET diagDown == \A index \in 0..4 : isMarked(cells, index, index)
             diagUp   == \A index \in 0..4 : isMarked(cells, index, 5 - index - 1)
         IN  diagDown \/ diagUp

---------------------------------------------------------------------------
(* Inputs of the model *)

MaxClock == 1

Ann == <<97, 110, 110>>

Users == {Ann, Constructor}

\* Indexes handleToggle is called with: two cells, the FREE cell and one
\* outside the board
ToggleIndexes == {0, 6, 12, 25}

ShortCatalog == SubSeq(BINGO_WORDS, 1, RequiredWords - 1)

Catalogs == {BINGO_WORDS, ShortCatalog}

\* The seed strings createBoard and regenerateBoard hash for these inputs
SeedTexts ==
    {BingoPrefix \o u : u \in Users}
    \cup {BingoPrefix \o u \o Colon \o decimal(t) : u \in Users, t \in 0..MaxClock}

ApiError == [message |-> "Request failed"]

---------------------------------------------------------------------------
(* App: state, rendering and the handlers *)

\* getCurrentUser(): user.username || null
getCurrentUser(item) == IF item = None THEN NoUser ELSE item[1]

\* setBoard(value): React calls a function value as an updater, with the
\* previous state; Object(null) is {} and Object(x) is x for an object x.
setBoard(prev, value) ==
    IF IsFunction(value)
    THEN (IF prev = None THEN Some(EmptyObject) ELSE prev)
    ELSE Some(value)

\* The render reads board.cells.filter(...) whenever board is not null: it
\* throws, and React unmounts the component, when board has no cells.
renders(b) == b = None \/ "cells" \in DOMAIN b[1]

\* toggleCells as it would be if it set the mark instead of flipping it
toggleCellsSetsMark(cells, index) ==
    [position \in 1..Len(cells) |->
        IF position - 1 = index
        THEN spread(cells[position], "marked", TRUE)
        ELSE cells[position]]

\* prev.cells.map((cell, idx) => idx === index ? {...cell, marked: !cell.marked} : cell)
toggleCells(cells, index) ==
    [position \in 1..Len(cells) |->
        IF position - 1 = index
        THEN spread(cells[position], "marked", ~cells[position].marked)
        ELSE cells[position]]

Init ==
    /\ catalog \in Catalogs
    /\ clock = 0
    /\ lsUser = None
    /\ lsBoards = None
    /\ user = NoUser
    /\ board = None
    /\ mounted = TRUE
    /\ ret = [op |-> "init"]
    /\ memo = [s \in SeedTexts |-> shuffledPool(catalog, s)]
    /\ call = [fn |-> "none"]

\* handleSubmit: loginUser / registerUser answer (apiOk) or throw; then
\* getCurrentUser, setUser, setBoard(getBoard(current))
HandleSubmit(u, apiOk, now) ==
    /\ mounted /\ user = NoUser
    /\ IF ~apiOk
       THEN /\ ret' = [op |-> "handleSubmit", username |-> u,
                       outcome |-> Thrown(ApiError)]
            /\ UNCHANGED <<lsUser, lsBoards, user, board, mounted, clock>>
       ELSE LET current == getCurrentUser(Some(u))
                got == getBoard(lsBoards, catalog, current, now)
            IN  /\ lsUser' = Some(u)
                /\ user' = current
                /\ lsBoards' = got.item
                /\ board' = IF got.result.ok
                            THEN setBoard(board, got.result.value)
                            ELSE board
                /\ mounted' = renders(board')
                /\ clock' = now
                /\ ret' = [op |-> "handleSubmit", username |-> u,
                           outcome |-> got.result]
    /\ UNCHANGED <<catalog, memo, call>>

\* The page is loaded again: the component starts from its initial state and
\* its mount effect runs; an error thrown by the effect unmounts it.
Reload(now) ==
    LET current == getCurrentUser(lsUser)
        got == getBoard(lsBoards, catalog, current, now)
    IN  /\ IF current = NoUser
           THEN /\ user' = NoUser /\ board' = None /\ mounted' = TRUE
                /\ ret' = [op |-> "reload", outcome |-> Ok(None)]
                /\ UNCHANGED <<lsBoards, clock>>
           ELSE /\ user' = current
                /\ lsBoards' = got.item
                /\ board' = IF got.result.ok
                            THEN setBoard(None, got.result.value)
                            ELSE None
                /\ mounted' = (got.result.ok /\ renders(board'))
                /\ clock' = now
                /\ ret' = [op |-> "reload", outcome |-> got.result]
        /\ UNCHANGED <<catalog, lsUser, memo, call>>

HandleLogout ==
    /\ mounted /\ user # NoUser
    /\ lsUser' = None
    /\ user' = NoUser
    /\ board' = None
    /\ ret' = [op |-> "handleLogout"]
    /\ UNCHANGED <<catalog, clock, lsBoards, mounted, memo, call>>

\* skipsToggle as it would be without the return for the FREE cell
skipsToggleFreeAllowed(b, u, index) == b = None \/ u = NoUser

\* The early returns of handleToggle: if (!board || !user) return;
\* if (index === 12) return;
skipsToggle(b, u, index) == b = None \/ u = NoUser \/ index = FreeIndex

\* handleToggle(index): updatedAt is read at stateNow inside the updater,
\* saveBoard reads the clock again at saveNow. No path of the handler throws.
HandleToggle(index, stateNow, saveNow) ==
    /\ mounted
    /\ IF skipsToggle(board, user, index)
       THEN /\ ret' = [op |-> "handleToggle", index |-> index, acted |-> FALSE,
                       outcome |-> Ok(None),
                       repeat |-> FALSE, before |-> None, before2 |-> None]
            /\ UNCHANGED <<lsBoards, board, clock>>
       ELSE LET prev == board[1]
                next == spread(spread(prev, "updatedAt", toISOString(stateNow)),
                               "cells", toggleCells(prev.cells, index))
                again == ret.op = "handleToggle" /\ ret.acted /\ ret.index = index
            IN  /\ lsBoards' = saveBoard(lsBoards, user, next, saveNow)
                /\ board' = Some(next)
                /\ clock' = saveNow
                /\ ret' = [op |-> "handleToggle", index |-> index, acted |-> TRUE,
                           outcome |-> Ok(None),
                           repeat |-> again,
                           before |-> Some(prev.cells),
                           before2 |-> IF again THEN ret.before ELSE None]
    /\ UNCHANGED <<catalog, lsUser, user, mounted, memo, call>>

\* handleReset: window.confirm answers `confirmed`; an error thrown by
\* resetBoard leaves the handler and the state is not set.
HandleReset(confirmed, now) ==
    /\ mounted
    /\ IF user = NoUser \/ ~confirmed
       THEN /\ ret' = [op |-> "handleReset", acted |-> FALSE,
                       outcome |-> Ok(None), before |-> None]
            /\ UNCHANGED <<lsBoards, board, clock>>
       ELSE LET done == resetBoard(lsBoards, catalog, user, now)
            IN  /\ lsBoards' = done.item
                /\ board' = IF done.result.ok
                            THEN setBoard(board, done.result.value)
                            ELSE board
                /\ clock' = now
                /\ ret' = [op |-> "handleReset", acted |-> TRUE,
                           outcome |-> done.result,
                           before |-> getProperty(getBoards(lsBoards), user)]
    /\ UNCHANGED <<catalog, lsUser, user, mounted, memo, call>>

\* regenerateBoard(username), an export of the storage module
RegenerateBoard(u, seedNow, stampNow) ==
    LET done == regenerateBoard(lsBoards, catalog, u, seedNow, stampNow)
    IN  /\ lsBoards' = done.item
        /\ clock' = stampNow
        /\ ret' = [op |-> "regenerateBoard", username |-> u,
                   seedNow |-> seedNow, outcome |-> done.result,
                   before |-> getProperty(getBoards(lsBoards), u)]
        /\ UNCHANGED <<catalog, lsUser, user, board, mounted, memo, call>>

\* clearAllBoards(), an export of the storage module
ClearAllBoards ==
    /\ lsBoards' = clearAllBoards(lsBoards)
    /\ ret' = [op |-> "clearAllBoards"]
    /\ UNCHANGED <<catalog, clock, lsUser, user, board, mounted, memo, call>>

Times(from) == from..MaxClock

Next ==
    \/ \E u \in Users, apiOk \in BOOLEAN, now \in Times(clock) :
          HandleSubmit(u, apiOk, now)
    \/ \E now \in Times(clock) : Reload(now)
    \/ HandleLogout
    \/ \E index \in ToggleIndexes, stateNow \in Times(clock) :
          \E saveNow \in Times(stateNow) : HandleToggle(index, stateNow, saveNow)
    \/ \E confirmed \in BOOLEAN, now \in Times(clock) : HandleReset(confirmed, now)
    \/ \E u \in Users \cup {NoUser}, seedNow \in Times(clock) :
          \E stampNow \in Times(seedNow) : RegenerateBoard(u, seedNow, stampNow)
    \/ ClearAllBoards

Spec == Init /\ [][Next]_vars

---------------------------------------------------------------------------
(* The generator called on its own: SpecGen draws a catalog, a username and
   a random source, and calls board generation twice. *)

CatalogSlack == 2
ShortBy == 2
MaxScript == 2

GenCatalogs ==
    {SubSeq(BINGO_WORDS, 1, n) :
        n \in (RequiredWords - ShortBy)..(RequiredWords + CatalogSlack)}
    \cup {BINGO_WORDS}

GenUsers == Users \cup {NoUser}

\* Numerators of the fractions a scripted source returns: 0, 1/2 and the
\* largest fraction below 1
Numerators == {<<0, 0>>, <<32768, 0>>, <<65535, 65535>>}

Scripts == UNION {[1..n -> Numerators] : n \in 1..MaxScript}

\* "seeded": createBoard's own source, mulberry32 of the username's hash
Sources == {[kind |-> "seeded"]} \cup {scripted(sc) : sc \in Scripts}

generate(words, username, source, now) ==
    IF source.kind = "seeded"
    THEN createBoard(words, username, now)
    ELSE createBoardFrom(words, username, source, now)

AppIdle ==
    /\ catalog = BINGO_WORDS
    /\ clock = 0
    /\ lsUser = None
    /\ lsBoards = None
    /\ user = NoUser
    /\ board = None
    /\ mounted = TRUE
    /\ ret = [op |-> "init"]
    /\ memo = EmptyObject

InitGen ==
    /\ AppIdle
    /\ \E w \in GenCatalogs, u \in GenUsers, src \in Sources :
          call = [fn |-> "createBoard", phase |-> "input",
                  words |-> w, username |-> u, source |-> src]

\* The first invocation, at clock reading now
Generate(now) ==
    /\ call.fn = "createBoard" /\ call.phase = "input"
    /\ call' = [fn |-> "createBoard", phase |-> "once",
                words |-> call.words, username |-> call.username,
                source |-> call.source, now |-> now,
                out |-> generate(call.words, call.username, call.source, now)]
    /\ UNCHANGED <<catalog, clock, lsUser, lsBoards, user, board, mounted,
                   ret, memo>>

\* A second invocation with the same catalog, username and source, at a
\* later clock reading
GenerateAgain(now) ==
    /\ call.fn = "createBoard" /\ call.phase = "once"
    /\ now >= call.now
    /\ call' = [fn |-> "createBoard", phase |-> "twice",
                words |-> call.words, username |-> call.username,
                source |-> call.source, now |-> call.now,
                out |-> call.out, now2 |-> now,
                out2 |-> generate(call.words, call.username, call.source, now)]
    /\ UNCHANGED <<catalog, clock, lsUser, lsBoards, user, board, mounted,
                   ret, memo>>

NextGen ==
    \/ \E now \in 0..MaxClock : Generate(now)
    \/ \E now \in 0..MaxClock : GenerateAgain(now)

SpecGen == InitGen /\ [][NextGen]_vars

---------------------------------------------------------------------------
(* The win evaluator called on its own: SpecBingo draws a cell list and
   calls checkBingo on it. *)

\* Lengths of the cell lists checkBingo is called with
CellCounts == {0, BoardCells - 1, BoardCells, BoardCells + 1}

\* The rows, columns and diagonals of a 5x5 board, as sets of cell indexes
Rows == {{5 * r + c : c \in 0..4} : r \in 0..4}
Columns == {{5 * r + c : r \in 0..4} : c \in 0..4}
Diagonals == {{0, 6, 12, 18, 24}, {4, 8, 12, 16, 20}}
Lines == Rows \cup Columns \cup Diagonals

\* Mark patterns: nothing, everything, the FREE cell alone, each line, each
\* line without one of its cells, each pair of lines without the cells they
\* share, and the complement of each line
MarkSets ==
    {{}, 0..BoardCells, {FreeIndex}}
    \cup Lines
    \cup {l \ {i} : l \in Lines, i \in 0..(BoardCells - 1)}
    \cup {(l \cup m) \ (l \cap m) : l \in Lines, m \in Lines}
    \cup {(0..(BoardCells - 1)) \ l : l \in Lines}

cellsOf(count, marks) ==
    [index \in 1..count |->
        [text |-> IF index - 1 = FreeIndex THEN "FREE" ELSE "word",
         marked |-> (index - 1) \in marks]]

InitBingo ==
    /\ AppIdle
    /\ \E count \in CellCounts, marks \in MarkSets :
          call = [fn |-> "checkBingo", phase |-> "input",
                  cells |-> cellsOf(count, marks)]

Evaluate ==
    /\ call.fn = "checkBingo" /\ call.phase = "input"
    /\ call' = [fn |-> "checkBingo", phase |-> "done", cells |-> call.cells,
                out |-> checkBingo(call.cells)]
    /\ UNCHANGED <<catalog, clock, lsUser, lsBoards, user, board, mounted,
                   ret, memo>>

NextBingo == Evaluate

SpecBingo == InitBingo /\ [][NextBingo]_vars

---------------------------------------------------------------------------
(* Properties *)

Range(seq) == {seq[i] : i \in DOMAIN seq}

\* The texts of a cell list, in order (a cell without a text gives <<>>)
textsOf(cells) ==
    [position \in 1..Len(cells) |->
        IF "text" \in DOMAIN cells[position]
        THEN Some(cells[position].text) ELSE None]

OtherPositions == (1..BoardCells) \ {FreeIndex + 1}

\* 25 cells, FREE marked at index 12, the 24 others pairwise-distinct phrases
\* of the catalog words
WellFormed(cells, words) ==
    /\ Len(cells) = BoardCells
    /\ cells[FreeIndex + 1] = FreeCell
    /\ \A p \in OtherPositions :
          /\ DOMAIN cells[p] = {"text", "marked"}
          /\ cells[p].text \in Range(words)
          /\ cells[p].marked \in BOOLEAN
    /\ \A p \in OtherPositions : \A q \in OtherPositions :
          p # q => cells[p].text # cells[q].text

Unmarked(cells) == \A p \in OtherPositions : cells[p].marked = FALSE

IsBoard(b, words) == "cells" \in DOMAIN b /\ WellFormed(b.cells, words)

storedBoards == getBoards(lsBoards)

\* C1: for a catalog of at least 24 distinct phrases and a non-empty
\* username, createBoard returns a board of 25 cells, FREE marked at index
\* 12, every other cell unmarked and holding pairwise-distinct phrases of the
\* catalog, whatever the random source returns (the seeded generator and
\* every scripted source).
C1_GeneratedBoardShape ==
    (/\ call.fn = "createBoard" /\ call.phase # "input"
     /\ Len(call.words) >= RequiredWords
     /\ call.username # NoUser)
    => /\ call.out.ok
       /\ WellFormed(call.out.value.cells, call.words)
       /\ Unmarked(call.out.value.cells)

\* A board generated from a catalog of exactly 24 phrases with a scripted
\* source that returns the largest fraction and then 0
C1_Witness ==
    /\ call.fn = "createBoard" /\ call.phase = "once"
    /\ Len(call.words) = RequiredWords
    /\ call.username = Ann
    /\ call.source.kind = "script"
    /\ call.source.script = <<(<<65535, 65535>>), (<<0, 0>>)>>
    /\ call.out.ok
    /\ Len(call.out.value.cells) = BoardCells

\* C2: in every reachable state each stored board and the board the UI holds
\* has 25 cells, FREE marked at index 12 and 24 pairwise-distinct catalog
\* phrases in the other cells.
C2_BoardsWellFormed ==
    /\ \A u \in DOMAIN storedBoards : IsBoard(storedBoards[u], catalog)
    /\ board # None => IsBoard(board[1], catalog)

\* C3: two invocations of createBoard with the same catalog and username, at
\* different times, give the same 25 texts in the same order (and fail
\* alike).
C3_SameUsernameSameWords ==
    (/\ call.fn = "createBoard" /\ call.phase = "twice"
     /\ call.source.kind = "seeded")
    => /\ call.out.ok = call.out2.ok
       /\ call.out.ok =>
             /\ Len(call.out.value.cells) = BoardCells
             /\ textsOf(call.out.value.cells) = textsOf(call.out2.value.cells)

C3_Witness ==
    /\ call.fn = "createBoard" /\ call.phase = "twice"
    /\ call.source.kind = "seeded"
    /\ call.now2 > call.now
    /\ call.out.ok /\ call.out2.ok
    /\ call.out.value.updatedAt # call.out2.value.updatedAt
    /\ call.words = BINGO_WORDS

\* The operation of ret went through board generation for a username without
\* a stored board
Generating ==
    \/ /\ ret.op = "handleSubmit"
       /\ ret.outcome # Thrown(ApiError)
       /\ getProperty(EmptyObject, ret.username) = None
    \/ /\ ret.op = "reload" /\ lsUser # None
       /\ getProperty(EmptyObject, getCurrentUser(lsUser)) = None
    \/ ret.op = "handleReset" /\ ret.acted
    \/ ret.op = "regenerateBoard" /\ ret.username # NoUser

ReportsCounts(error) ==
    /\ "need" \in DOMAIN error /\ error.need = RequiredWords
    /\ "have" \in DOMAIN error /\ error.have = Len(catalog)

\* C4: with a catalog of fewer than 24 phrases, board generation through
\* getBoard, resetBoard or regenerateBoard fails with an error that reports
\* the required and the actual count, and nothing is stored.
C4_ShortCatalogReported ==
    Len(catalog) < RequiredWords
    => /\ lsBoards = None
       /\ Generating => /\ ~ret.outcome.ok
                        /\ ReportsCounts(ret.outcome.error)

\* C5: checkBingo returns TRUE exactly when the list has 25 cells and one of
\* the 12 lines has all five cells marked; FALSE for any other length.
C5_BingoIffLineMarked ==
    (call.fn = "checkBingo" /\ call.phase = "done")
    => call.out = (/\ Len(call.cells) = BoardCells
                   /\ \E l \in Lines : \A i \in l : call.cells[i + 1].marked)

\* The anti-diagonal alone is marked, and checkBingo answers TRUE
C5_Witness ==
    /\ call.fn = "checkBingo" /\ call.phase = "done"
    /\ Len(call.cells) = BoardCells
    /\ {i \in 0..(BoardCells - 1) : call.cells[i + 1].marked} = {4, 8, 12, 16, 20}
    /\ call.out = TRUE

\* C6: toggling a cell i (in 0..24, not 12) twice in succession gives, in the
\* UI and in the store, the cells (texts and marks) of the board before the
\* two toggles.
C6_ToggleTwiceRestores ==
    (/\ ret.op = "handleToggle" /\ ret.acted /\ ret.repeat
     /\ ret.index \in 0..(BoardCells - 1) /\ ret.index # FreeIndex)
    => /\ board # None /\ board[1].cells = ret.before2[1]
       /\ user \in DOMAIN storedBoards
       /\ storedBoards[user].cells = ret.before2[1]

\* Cell 6 toggled twice, marked in between
C6_Witness ==
    /\ ret.op = "handleToggle" /\ ret.acted /\ ret.repeat /\ ret.index = 6
    /\ ret.before2 # None
    /\ ret.before[1][7].marked /\ ~ret.before2[1][7].marked
    /\ ret.before2[1][1].marked

\* C7: handleToggle(12) changes neither the UI's board nor the stored
\* boards, and cell 12 stays marked.
C7_FreeToggleNoOp ==
    [][(ret'.op = "handleToggle" /\ ret'.index = FreeIndex)
       => /\ board' = board
          /\ lsBoards' = lsBoards
          /\ board' # None => board'[1].cells[FreeIndex + 1].marked]_vars

\* handleToggle(12) was called on a shown board with another cell marked
C7_Witness ==
    /\ ret.op = "handleToggle" /\ ret.index = FreeIndex
    /\ user # NoUser /\ board # None
    /\ board[1].cells[1].marked
    /\ board[1].cells[FreeIndex + 1].marked

\* C8: handleToggle with an index outside 0..24, on a shown board, fails
\* with an error and changes neither the UI's board nor the stored boards.
C8_OutOfRangeRejected ==
    [][(/\ ret'.op = "handleToggle" /\ ret'.index \notin 0..(BoardCells - 1)
        /\ mounted /\ user # NoUser /\ board # None)
       => /\ ~ret'.outcome.ok
          /\ board' = board
          /\ lsBoards' = lsBoards]_vars

\* C9: resetBoard for a user whose stored board has 25 cells returns and
\* stores a board with the same texts in the same order, only index 12
\* marked, on which checkBingo is FALSE; handleReset shows that board.
C9_ResetKeepsWords ==
    (ret.op = "handleReset" /\ ret.acted /\ hasCells25(ret.before))
    => /\ ret.outcome.ok
       /\ textsOf(ret.outcome.value.cells) = textsOf(ret.before[1].cells)
       /\ \A p \in 1..BoardCells :
             ret.outcome.value.cells[p].marked = (p = FreeIndex + 1)
       /\ ~checkBingo(ret.outcome.value.cells)
       /\ user \in DOMAIN storedBoards
       /\ storedBoards[user] = ret.outcome.value
       /\ board = Some(ret.outcome.value)

\* A reset of a board on which cells 0 and 6 were marked
C9_Witness ==
    /\ ret.op = "handleReset" /\ ret.acted /\ hasCells25(ret.before)
    /\ ret.before[1].cells[1].marked /\ ret.before[1].cells[7].marked
    /\ ret.outcome.ok

\* C10: regenerateBoard stores, in the place of the user's previous board,
\* the board it would store on an empty store at the same clock readings
\* (nothing of the previous board enters it); that board has 25 cells, FREE
\* marked at index 12, 24 distinct catalog phrases, all unmarked.
C10_RegenerateReplaces ==
    (ret.op = "regenerateBoard" /\ ret.outcome.ok)
    => /\ ret.username \in DOMAIN storedBoards
       /\ storedBoards[ret.username] = ret.outcome.value
       /\ ret.outcome.value =
             regenerateBoard(None, catalog, ret.username,
                             ret.seedNow, clock).result.value
       /\ IsBoard(ret.outcome.value, catalog)
       /\ Unmarked(ret.outcome.value.cells)

\* A regeneration over a stored board that had a mark and other words
C10_Witness ==
    /\ ret.op = "regenerateBoard" /\ ret.outcome.ok
    /\ ret.before # None /\ hasCells25(ret.before)
    /\ ret.before[1].cells[1].marked
    /\ textsOf(ret.before[1].cells) # textsOf(ret.outcome.value.cells)

---------------------------------------------------------------------------
(* The storage module called on its own: SpecStore calls its exported
   functions in any order. *)

\* A board as an earlier build or another caller of saveBoard may hand it
\* over: one cell short, or without its cells
ShortBoard ==
    [size |-> 5,
     cells |-> SubSeq(buildCells(SubSeq(BINGO_WORDS, 1, RequiredWords)),
                      1, BoardCells - 1),
     updatedAt |-> toISOString(0)]

NoCellsBoard == [size |-> 5, updatedAt |-> toISOString(0)]

SavedBoards == {ShortBoard, NoCellsBoard}

\* setAuth(token, user) for the user the API answered with
setAuth(u) == Some(u)

\* clearAuth(): removes auth_token and auth_user
clearAuth(item) == None

\* loginUser(username, password): the API answers (apiOk) or the call throws
LoginUser(u, apiOk) ==
    /\ lsUser' = IF apiOk THEN setAuth(u) ELSE lsUser
    /\ ret' = [op |-> "loginUser", username |-> u,
               outcome |-> IF apiOk THEN Ok(u) ELSE Thrown(ApiError)]
    /\ UNCHANGED <<catalog, clock, lsBoards, user, board, mounted, memo, call>>

\* registerUser(username, password), for a username of 3 characters or more
\* and a password of 6 or more
RegisterUser(u, apiOk) ==
    /\ Len(u) >= 3
    /\ lsUser' = IF apiOk THEN setAuth(u) ELSE lsUser
    /\ ret' = [op |-> "registerUser", username |-> u,
               outcome |-> IF apiOk THEN Ok(u) ELSE Thrown(ApiError)]
    /\ UNCHANGED <<catalog, clock, lsBoards, user, board, mounted, memo, call>>

\* verifyAuth(): /auth/me answers with the token's user, or clearAuth()
VerifyAuth(apiOk) ==
    /\ lsUser' = IF apiOk /\ lsUser # None THEN setAuth(lsUser[1])
                 ELSE clearAuth(lsUser)
    /\ ret' = [op |-> "verifyAuth", outcome |-> Ok(lsUser')]
    /\ UNCHANGED <<catalog, clock, lsBoards, user, board, mounted, memo, call>>

\* logoutUser as it would be if clearAuth also removed the boards item
LogoutUserClearsBoards ==
    /\ lsUser' = clearAuth(lsUser)
    /\ lsBoards' = None
    /\ ret' = [op |-> "logoutUser"]
    /\ UNCHANGED <<catalog, clock, user, board, mounted, memo, call>>

\* logoutUser()
LogoutUser ==
    /\ lsUser' = clearAuth(lsUser)
    /\ ret' = [op |-> "logoutUser"]
    /\ UNCHANGED <<catalog, clock, lsBoards, user, board, mounted, memo, call>>

\* getBoard(username)
GetBoard(u, now) ==
    LET got == getBoard(lsBoards, catalog, u, now)
    IN  /\ lsBoards' = got.item
        /\ clock' = now
        /\ ret' = [op |-> "getBoard", username |-> u, outcome |-> got.result]
        /\ UNCHANGED <<catalog, lsUser, user, board, mounted, memo, call>>

\* saveBoard(username, board)
SaveBoard(u, value, now) ==
    /\ lsBoards' = saveBoard(lsBoards, u, value, now)
    /\ clock' = now
    /\ ret' = [op |-> "saveBoard", username |-> u]
    /\ UNCHANGED <<catalog, lsUser, user, board, mounted, memo, call>>

\* resetBoard(username)
ResetBoard(u, now) ==
    LET done == resetBoard(lsBoards, catalog, u, now)
    IN  /\ lsBoards' = done.item
        /\ clock' = now
        /\ ret' = [op |-> "resetBoard", username |-> u, outcome |-> done.result]
        /\ UNCHANGED <<catalog, lsUser, user, board, mounted, memo, call>>

NextStore ==
    \/ \E u \in Users, apiOk \in BOOLEAN : LoginUser(u, apiOk)
    \/ \E u \in Users, apiOk \in BOOLEAN : RegisterUser(u, apiOk)
    \/ \E apiOk \in BOOLEAN : VerifyAuth(apiOk)
    \/ LogoutUser
    \/ \E u \in Users, now \in Times(clock) : GetBoard(u, now)
    \/ \E u \in Users, value \in SavedBoards, now \in Times(clock) :
          SaveBoard(u, value, now)
    \/ \E u \in Users, now \in Times(clock) : ResetBoard(u, now)
    \/ \E u \in Users, seedNow \in Times(clock) :
          \E stampNow \in Times(seedNow) : RegenerateBoard(u, seedNow, stampNow)
    \/ ClearAllBoards

SpecStore == Init /\ [][NextStore]_vars

---------------------------------------------------------------------------
(* Properties of the stored data *)

\* C11: when the board stored for a username fails the board invariants
\* (and the catalog suffices to build one), getBoard returns and stores a
\* freshly generated well-formed board in its place.
C11_MalformedTreatedAbsent ==
    [][(/\ ret'.op = "getBoard"
        /\ Len(catalog) >= RequiredWords
        /\ ret'.username \in DOMAIN storedBoards
        /\ ~IsBoard(storedBoards[ret'.username], catalog))
       => /\ ret'.outcome.ok
          /\ IsBoard(ret'.outcome.value, catalog)
          /\ ret'.username \in DOMAIN getBoards(lsBoards')
          /\ getBoards(lsBoards')[ret'.username] = ret'.outcome.value]_vars


\* C13 as claimed: a username that has a stored board still has one after
\* any operation of the storage module, clearAllBoards included.
C13_NeverDeleted ==
    [][DOMAIN storedBoards \subseteq DOMAIN getBoards(lsBoards')]_vars

\* C13 as amended: a username that has a stored board still has one after
\* any operation of the storage module other than clearAllBoards, which
\* removes them all.
C13_DeletedOnlyByClearAll ==
    [][IF ret'.op = "clearAllBoards"
       THEN lsBoards' = None
       ELSE DOMAIN storedBoards \subseteq DOMAIN getBoards(lsBoards')]_vars

\* verifyAuth failed and cleared the login data while both users have a board
C13_Witness ==
    /\ ret.op = "verifyAuth" /\ lsUser = None
    /\ DOMAIN storedBoards = Users


\* The username a login step or a page load asks getBoard for
requested(r, item) ==
    IF r.op = "handleSubmit" /\ r.outcome # Thrown(ApiError) THEN r.username
    ELSE IF r.op = "reload" THEN getCurrentUser(item)
    ELSE NoUser

\* C12: a login (or page load) as a username that has a stored board shows
\* exactly that board, texts and marks as last persisted, and writes nothing:
\* the store changes in such a step only for a username that had no board.
C12_ConsistentAcrossLogins ==
    [][(/\ requested(ret', lsUser') # NoUser
        /\ requested(ret', lsUser') \in DOMAIN storedBoards)
       => /\ lsBoards' = lsBoards
          /\ ret'.outcome = Ok(storedBoards[requested(ret', lsUser')])
          /\ board' = Some(storedBoards[requested(ret', lsUser')])]_vars

\* A login that shows a board on which cells 0 and 6 were marked in an
\* earlier session
C12_Witness ==
    /\ ret.op = "handleSubmit" /\ ret.outcome.ok /\ ret.username = Ann
    /\ board # None /\ "cells" \in DOMAIN board[1]
    /\ board[1].cells[1].marked /\ board[1].cells[7].marked
    /\ storedBoards[Ann] = board[1]


\* The username a step of the App or of regenerateBoard works for
actor(r, u, item) ==
    IF r.op \in {"handleSubmit", "reload"} THEN requested(r, item)
    ELSE IF r.op \in {"handleToggle", "handleReset"} THEN u
    ELSE IF r.op = "regenerateBoard" THEN r.username
    ELSE NoUser

\* C14: a board operation for username u (creation by getBoard, toggle with
\* its saveBoard, resetBoard, regenerateBoard) leaves the stored board of
\* every other username as it was and adds no key other than u; the store
\* maps a username to one board.
C14_OtherBoardsUntouched ==
    [][ret'.op # "clearAllBoards"
       => /\ \A v \in DOMAIN storedBoards :
                v # actor(ret', user', lsUser')
                => /\ v \in DOMAIN getBoards(lsBoards')
                   /\ getBoards(lsBoards')[v] = storedBoards[v]
          /\ DOMAIN getBoards(lsBoards')
                \subseteq DOMAIN storedBoards \cup {actor(ret', user', lsUser')}
          /\ NoUser \notin DOMAIN getBoards(lsBoards')]_vars

\* A toggle by ann was saved while constructor has a different stored board
C14_Witness ==
    /\ ret.op = "handleToggle" /\ ret.acted /\ user = Ann
    /\ DOMAIN storedBoards = Users
    /\ storedBoards[Ann].cells[1].marked
    /\ textsOf(storedBoards[Constructor].cells) # textsOf(storedBoards[Ann].cells)


\* The clock reading a stored board's updatedAt is the text of
stampOf(b) == b.updatedAt.iso

\* The step of ret changed the stored board of its username: a toggle of a
\* cell other than FREE, a reset or a regeneration
Mutating(r) ==
    \/ r.op = "handleToggle" /\ r.acted /\ r.index \in 0..(BoardCells - 1)
    \/ r.op = "handleReset" /\ r.acted /\ r.outcome.ok
    \/ r.op = "regenerateBoard" /\ r.outcome.ok

\* C15: with a clock that does not go back, the updatedAt of a stored board
\* never decreases; a creation, a toggle of a cell other than FREE, a reset
\* and a regeneration set it to a reading taken during the step; getBoard on
\* a stored board and a toggle of index 12 leave the store as it was.
C15_UpdatedAtAdvances ==
    [][/\ \A u \in DOMAIN storedBoards \cap DOMAIN getBoards(lsBoards') :
             stampOf(getBoards(lsBoards')[u]) >= stampOf(storedBoards[u])
       /\ \A u \in DOMAIN getBoards(lsBoards') \ DOMAIN storedBoards :
             /\ stampOf(getBoards(lsBoards')[u]) >= clock
             /\ stampOf(getBoards(lsBoards')[u]) <= clock'
       /\ Mutating(ret')
          => /\ actor(ret', user', lsUser') \in DOMAIN getBoards(lsBoards')
             /\ stampOf(getBoards(lsBoards')[actor(ret', user', lsUser')]) >= clock
             /\ stampOf(getBoards(lsBoards')[actor(ret', user', lsUser')]) <= clock'
       /\ (\/ requested(ret', lsUser') \in DOMAIN storedBoards
           \/ ret'.op = "handleToggle" /\ ret'.index = FreeIndex)
          => lsBoards' = lsBoards]_vars

\* A reset moved the stored updatedAt forward
C15_Witness ==
    /\ ret.op = "handleReset" /\ ret.acted /\ ret.outcome.ok
    /\ hasCells25(ret.before)
    /\ stampOf(ret.before[1]) < stampOf(storedBoards[user])
    /\ stampOf(storedBoards[user]) = clock

==========================================================================
